---- MODULE Spec2Model ----
(***************************************************************************)
(* GradescopeSync: the date normaliser (ical_generator.parse_date and      *)
(* GoogleCalendarClient._parse_date), the record extractor                 *)
(* (GradescopeClient.get_courses / get_assignments), the event projector   *)
(* (ical_generator.create_event / create_calendar), the remote upsert      *)
(* (GoogleCalendarClient.create_or_update_event) and the two entry points  *)
(* (sync_gradescope.main, generate_ical.main).                             *)
(*                                                                         *)
(* Python values: an optional value is a tuple of length 0 (None) or 1.    *)
(* Text is a TLA+ string where the code only compares or concatenates it;  *)
(* a due-date string is a record of the tokens strptime and the regular    *)
(* expression look at.                                                     *)
(***************************************************************************)
EXTENDS Integers, Sequences, FiniteSets, TLC

VARIABLES
  \* ---- date normaliser calls
  date_str,        \* the argument of parse_date / _parse_date (optional due-date string)
  current_year,    \* datetime.now().year
  parsed,          \* optional outcome of ical_generator.parse_date(date_str)
  parsed_gcal,     \* optional outcome of GoogleCalendarClient._parse_date(date_str)
  \* ---- record extractor calls
  extract_fn,      \* which extractor is called: "get_courses" or "get_assignments"
  account_page,    \* the <a> elements of the account page, in document order
  course_page,     \* the <tr> elements of a course page, in document order
  course_id_arg,   \* the course_id argument of get_assignments
  courses_out,     \* optional result of get_courses
  assignments_out, \* optional result of get_assignments
  \* ---- event projector calls
  calls,           \* the create_event calls made so far: argument and outcome
  \* ---- one run of sync_gradescope.main or generate_ical.main
  mode,            \* "sync" (sync_gradescope.main) or "ical" (generate_ical.main)
  pc,              \* where the run stands
  failure,         \* what ended the run, "" while none
  exit_status,     \* the process's exit status, -1 while it runs
  courses,         \* the courses still to process
  course,          \* the course being processed (optional)
  assignments,     \* the assignments of that course still to process
  remote,          \* the remote calendars: calendar id -> events
  calendar_list,   \* the calendars the remote service lists
  calendar_id,     \* the calendar the run writes to
  calendars_listed, \* whether get_calendar_id's list request succeeded (optional)
  next_event_id,   \* the id the remote service gives the next inserted event
  total_created,
  total_updated,
  total_skipped,
  all_assignments, \* generate_ical.main: the dicts collected for the iCal generator
  ics_file,        \* docs/gradescope.ics: None until written, else its VEVENTs
  remote_before,   \* the remote calendars when the run started
  handled,         \* how many assignments the loop has taken up
  extracted,       \* how many assignment records get_assignments has returned in the run
  unschedulable,   \* how many of them had no due date or one that is no timestamp
  last_call,       \* title and outcome of the last create_or_update_event call
  argv,            \* sys.argv[1:], the command-line arguments of the script
  page_events,     \* cleanup: the events of the fetched page still to examine
  page_token,      \* cleanup: nextPageToken of the fetched page (optional offset)
  deleted,         \* cleanup: the ids of the events a delete request was issued for
  \* ---- two sync runs over the same inputs in two orders
  order_a,         \* first run: the (course, assignment) pairs still to process
  order_b,         \* second run: the same pairs in another order
  events_a,        \* first run: the events of the target calendar
  events_b,        \* second run: the events of the target calendar
  ics_a,           \* first run's calendar file (optional)
  ics_b            \* second run's calendar file (optional)

None == <<>>
Some(v) == <<v>>

\* ------------------------------------------------------------------------
\* Due-date strings
\* ------------------------------------------------------------------------

\* The text of a due date, by shape:
\*   "empty"  ""
\*   "text"   free text with no date in it ("TBD")
\*   "iso"    "<year>-<monthNum>-<day><sep><hour>:<minute>:<second><tz>"
\*   "slash"  "<monthNum>/<day>/<year> <hour>:<minute> <ampm>"
\*   "human"  "[Due ]<month> <day>[, <year>][ at] <hour>:<minute>[ ]<ampm>"
\* pad: the text is surrounded by whitespace.  year = 0: no year is written.
\* tz: "" (none), "-0800" (glued to the seconds), " -0800" (after a blank).
DateStr(shape, pad, prefix, month, monthNum, day, year, at, hour, minute, second, space, ampm, sep, tz) ==
  [shape |-> shape, pad |-> pad, prefix |-> prefix, month |-> month, monthNum |-> monthNum,
   day |-> day, year |-> year, at |-> at, hour |-> hour, minute |-> minute,
   second |-> second, space |-> space, ampm |-> ampm, sep |-> sep, tz |-> tz]

EmptyStr == DateStr("empty", FALSE, FALSE, "", 0, 0, 0, FALSE, 0, 0, 0, FALSE, "", "", "")
BlankStr == DateStr("empty", TRUE, FALSE, "", 0, 0, 0, FALSE, 0, 0, 0, FALSE, "", "", "")
TextStr == DateStr("text", FALSE, FALSE, "", 0, 0, 0, FALSE, 0, 0, 0, FALSE, "", "", "")
Human(pad, prefix, month, day, year, at, hour, minute, space, ampm) ==
  DateStr("human", pad, prefix, month, 0, day, year, at, hour, minute, 0, space, ampm, "", "")
Iso(year, monthNum, day, sep, hour, minute, second, tz) ==
  DateStr("iso", FALSE, FALSE, "", monthNum, day, year, FALSE, hour, minute, second, FALSE, "", sep, tz)
Slash(monthNum, day, year, hour, minute, ampm) ==
  DateStr("slash", FALSE, FALSE, "", monthNum, day, year, FALSE, hour, minute, 0, TRUE, ampm, "", "")

\* bool(date_str) of an optional string: None and "" are falsy.
Truthy(s) == s # None /\ ~(s[1].shape = "empty" /\ ~s[1].pad)

\* str.strip()
strip(s) == [s EXCEPT !.pad = FALSE]

\* ------------------------------------------------------------------------
\* datetime
\* ------------------------------------------------------------------------

\* The outcome of a call that returns Optional[datetime] or raises ValueError.
DateTime(y, mo, d, h, mi, s, tz) ==
  [tag |-> "datetime", year |-> y, month |-> mo, day |-> d, hour |-> h,
   minute |-> mi, second |-> s, tz |-> tz]
NoDate == [tag |-> "None", year |-> 0, month |-> 0, day |-> 0, hour |-> 0,
           minute |-> 0, second |-> 0, tz |-> ""]
ValueError == [tag |-> "ValueError", year |-> 0, month |-> 0, day |-> 0, hour |-> 0,
               minute |-> 0, second |-> 0, tz |-> ""]

IsLeap(y) == (y % 4 = 0 /\ y % 100 # 0) \/ y % 400 = 0

DaysInMonth(y, m) ==
  IF m = 2 THEN (IF IsLeap(y) THEN 29 ELSE 28)
  ELSE IF m \in {4, 6, 9, 11} THEN 30 ELSE 31

\* datetime(year, month, day, hour, minute): ValueError unless every field is in range.
datetime(y, mo, d, h, mi) ==
  IF mo \in 1..12 /\ d >= 1 /\ d <= DaysInMonth(y, mo) /\ h \in 0..23 /\ mi \in 0..59
  THEN DateTime(y, mo, d, h, mi, 0, "")
  ELSE ValueError

FullMonths == <<"January", "February", "March", "April", "May", "June", "July",
                "August", "September", "October", "November", "December">>
AbbrMonths == <<"Jan", "Feb", "Mar", "Apr", "May", "Jun", "Jul", "Aug", "Sep",
                "Oct", "Nov", "Dec">>

\* The month a name stands for in a table of month names, 0 when it is in none.
MonthOf(table, name) ==
  IF \E i \in 1..12 : table[i] = name THEN CHOOSE i \in 1..12 : table[i] = name ELSE 0

upper(ampm) == IF ampm \in {"am", "AM"} THEN "AM" ELSE IF ampm \in {"pm", "PM"} THEN "PM" ELSE ampm

\* The year strptime gives a date written without one.
StrptimeDefaultYear == 1900

\* What one "Month Day[, Year][ at] Hour:Minute[ ]AM/PM" format asks of the text.
HumanFormat(fmt) ==
  CASE fmt = "%b %d, %Y %I:%M %p"    -> [known |-> TRUE, table |-> AbbrMonths, year |-> TRUE, at |-> FALSE, space |-> TRUE]
    [] fmt = "%b %d, %Y at %I:%M %p" -> [known |-> TRUE, table |-> AbbrMonths, year |-> TRUE, at |-> TRUE, space |-> TRUE]
    [] fmt = "%B %d, %Y %I:%M %p"    -> [known |-> TRUE, table |-> FullMonths, year |-> TRUE, at |-> FALSE, space |-> TRUE]
    [] fmt = "%B %d, %Y at %I:%M %p" -> [known |-> TRUE, table |-> FullMonths, year |-> TRUE, at |-> TRUE, space |-> TRUE]
    [] fmt = "%B %d at %I:%M%p"      -> [known |-> TRUE, table |-> FullMonths, year |-> FALSE, at |-> TRUE, space |-> FALSE]
    [] fmt = "%B %d at %I:%M %p"     -> [known |-> TRUE, table |-> FullMonths, year |-> FALSE, at |-> TRUE, space |-> TRUE]
    [] fmt = "%b %d at %I:%M%p"      -> [known |-> TRUE, table |-> AbbrMonths, year |-> FALSE, at |-> TRUE, space |-> FALSE]
    [] fmt = "%b %d at %I:%M %p"     -> [known |-> TRUE, table |-> AbbrMonths, year |-> FALSE, at |-> TRUE, space |-> TRUE]
    [] fmt = "%B %d %I:%M%p"         -> [known |-> TRUE, table |-> FullMonths, year |-> FALSE, at |-> FALSE, space |-> FALSE]
    [] fmt = "%B %d %I:%M %p"        -> [known |-> TRUE, table |-> FullMonths, year |-> FALSE, at |-> FALSE, space |-> TRUE]
    [] OTHER                         -> [known |-> FALSE, table |-> FullMonths, year |-> FALSE, at |-> FALSE, space |-> FALSE]

\* %I with %p: the 12-hour clock hour as strptime converts it.
StrptimeHour(h, ampm) == (h % 12) + (IF upper(ampm) = "PM" THEN 12 ELSE 0)

\* datetime.strptime(s, fmt): the whole text must match the format (no text
\* before or after it), each field within the directive's range (%d 1..31,
\* %I 1..12, %H 0..23, %M and %S 0..59), and the date must exist in the year
\* written, or in 1900 when the format has no %Y; ValueError otherwise.
strptime(s, fmt) ==
  LET f == HumanFormat(fmt)
      m == MonthOf(f.table, s.month)
      y == IF f.year THEN s.year ELSE StrptimeDefaultYear
      isoOk == s.shape = "iso" /\ ~s.pad /\ s.monthNum \in 1..12 /\ s.day >= 1
               /\ s.day <= DaysInMonth(s.year, s.monthNum)
               /\ s.hour \in 0..23 /\ s.minute \in 0..59 /\ s.second \in 0..59
  IN CASE fmt = "%Y-%m-%d %H:%M:%S %z" ->
            IF isoOk /\ s.sep = " " /\ s.tz = " -0800"
            THEN DateTime(s.year, s.monthNum, s.day, s.hour, s.minute, s.second, "-0800")
            ELSE ValueError
       [] fmt = "%Y-%m-%dT%H:%M:%S%z" ->
            IF isoOk /\ s.sep = "T" /\ s.tz = "-0800"
            THEN DateTime(s.year, s.monthNum, s.day, s.hour, s.minute, s.second, "-0800")
            ELSE ValueError
       [] fmt = "%Y-%m-%dT%H:%M:%S" ->
            IF isoOk /\ s.sep = "T" /\ s.tz = ""
            THEN DateTime(s.year, s.monthNum, s.day, s.hour, s.minute, s.second, "")
            ELSE ValueError
       [] fmt = "%m/%d/%Y %I:%M %p" ->
            IF s.shape = "slash" /\ ~s.pad /\ s.monthNum \in 1..12 /\ s.day >= 1
               /\ s.day <= DaysInMonth(s.year, s.monthNum)
               /\ s.hour \in 1..12 /\ s.minute \in 0..59 /\ upper(s.ampm) \in {"AM", "PM"}
            THEN DateTime(s.year, s.monthNum, s.day, StrptimeHour(s.hour, s.ampm), s.minute, 0, "")
            ELSE ValueError
       [] OTHER ->
            IF f.known /\ s.shape = "human" /\ ~s.pad /\ ~s.prefix
               /\ (s.year # 0) = f.year /\ s.at = f.at /\ s.space = f.space
               /\ m # 0 /\ s.day >= 1 /\ s.day <= DaysInMonth(y, m)
               /\ s.hour \in 1..12 /\ s.minute \in 0..59 /\ upper(s.ampm) \in {"AM", "PM"}
            THEN DateTime(y, m, s.day, StrptimeHour(s.hour, s.ampm), s.minute, 0, "")
            ELSE ValueError

\* datetime.strptime(month_str, "%B") / "%b": the month of a month name.
strptime_month(month_str, table) == MonthOf(table, month_str)

\* re.search(r"(\w+)\s+(\d+)\s+at\s+(\d+):(\d+)\s*([AP]M)", s, re.IGNORECASE):
\* a word, a number, "at", hour:minute and an AM/PM marker anywhere in the text.
\* A written year (", <year>" after the day) separates the day from "at".
re_search(s) ==
  IF s.shape = "human" /\ s.at /\ s.year = 0 /\ upper(s.ampm) \in {"AM", "PM"}
  THEN Some([month_str |-> s.month, day |-> s.day, hour |-> s.hour,
             minute |-> s.minute, ampm |-> s.ampm])
  ELSE None

formats_with_year ==
  << "%Y-%m-%d %H:%M:%S %z", "%Y-%m-%dT%H:%M:%S%z", "%Y-%m-%dT%H:%M:%S",
     "%b %d, %Y %I:%M %p", "%b %d, %Y at %I:%M %p", "%B %d, %Y %I:%M %p",
     "%B %d, %Y at %I:%M %p", "%m/%d/%Y %I:%M %p" >>

formats_without_year ==
  << "%B %d at %I:%M%p", "%B %d at %I:%M %p", "%b %d at %I:%M%p",
     "%b %d at %I:%M %p", "%B %d %I:%M%p", "%B %d %I:%M %p" >>

\* try: return <attempt> except ValueError: <go on with the next strategy>
OrElse(attempt, next) == IF attempt.tag = "datetime" THEN attempt ELSE next

\* The formats with a year left out of the chain: none of them is tried.
TryFormatsWithYear_skipped(s, i) == ValueError

\* for fmt in formats_with_year: try: return strptime(s, fmt) except ValueError: continue
\* The first format from position i on that parses s; ValueError when none does.
RECURSIVE TryFormatsWithYear(_, _)
TryFormatsWithYear(s, i) ==
  IF i > Len(formats_with_year) THEN ValueError
  ELSE OrElse(strptime(s, formats_with_year[i]), TryFormatsWithYear(s, i + 1))

\* replace_year with the reference year left out: the date keeps strptime's year.
replace_year_dropped(dt, y) == dt

\* parsed.replace(year=current_year) of a parsed date (ValueError when the day
\* does not exist in that year); a ValueError of strptime stays one.
replace_year(dt, y) ==
  IF dt.tag = "datetime" /\ dt.day <= DaysInMonth(y, dt.month)
  THEN [dt EXCEPT !.year = y] ELSE ValueError

\* for fmt in formats_without_year: try: parsed = strptime(s, fmt);
\* return parsed.replace(year=current_year) except ValueError: continue
RECURSIVE TryFormatsWithoutYear(_, _, _)
TryFormatsWithoutYear(s, i, year) ==
  IF i > Len(formats_without_year) THEN ValueError
  ELSE OrElse(replace_year(strptime(s, formats_without_year[i]), year),
              TryFormatsWithoutYear(s, i + 1, year))

\* The hour taken as written, without the conversion.
ConvertHour_plain(hour, ampm) == hour

\* The 24-hour conversion of the permissive strategy.
ConvertHour(hour, ampm) ==
  IF upper(ampm) = "PM" /\ hour # 12 THEN hour + 12
  ELSE IF upper(ampm) = "AM" /\ hour = 12 THEN 0
  ELSE hour

\* The permissive strategy: the regular expression, the month tables (the only
\* part inside a try), the 24-hour conversion and the datetime constructor.
RegexStrategy(s, year) ==
  LET match == re_search(s)
  IN IF match = None THEN NoDate
     ELSE LET g == match[1]
              full == strptime_month(g.month_str, FullMonths)
              abbr == strptime_month(g.month_str, AbbrMonths)
              month == IF full # 0 THEN full ELSE abbr
          IN IF month = 0 THEN NoDate
             ELSE datetime(year, month, g.day, ConvertHour(g.hour, g.ampm), g.minute)

\* ical_generator.parse_date: the formats with a year, then those without,
\* then the permissive pattern; the first that gives a date wins.
parse_date(s_opt, year) ==
  IF ~Truthy(s_opt) THEN NoDate
  ELSE OrElse(TryFormatsWithYear(strip(s_opt[1]), 1),
              OrElse(TryFormatsWithoutYear(strip(s_opt[1]), 1, year),
                     RegexStrategy(strip(s_opt[1]), year)))

\* The chain without its last strategy, the permissive pattern.
_parse_date_formats_only(s_opt, year) ==
  IF ~Truthy(s_opt) THEN NoDate
  ELSE OrElse(TryFormatsWithYear(strip(s_opt[1]), 1),
              OrElse(TryFormatsWithoutYear(strip(s_opt[1]), 1, year), NoDate))

\* GoogleCalendarClient._parse_date: the same chain.
_parse_date(s_opt, year) ==
  IF ~Truthy(s_opt) THEN NoDate
  ELSE OrElse(TryFormatsWithYear(strip(s_opt[1]), 1),
              OrElse(TryFormatsWithoutYear(strip(s_opt[1]), 1, year),
                     RegexStrategy(strip(s_opt[1]), year)))

\* ------------------------------------------------------------------------
\* The record extractor (GradescopeClient.get_courses / get_assignments)
\* ------------------------------------------------------------------------

GRADESCOPE_BASE_URL == "https://www.gradescope.com"

\* A link target is the sequence href.split("/") of its path segments:
\* "/courses/1" is <<"", "courses", "1">>.
RECURSIVE JoinFrom(_, _)
JoinFrom(segs, i) ==
  IF i > Len(segs) THEN ""
  ELSE IF i = Len(segs) THEN segs[i]
  ELSE segs[i] \o "/" \o JoinFrom(segs, i + 1)

\* The text of a link target.
HrefText(segs) == JoinFrom(segs, 1)

\* The digits a path segment starts with ("" when it starts with none).
LeadingDigits(seg) ==
  CASE seg \in {"1", "2", "3", "11", "12", "13", "21"} -> seg
    [] seg = "1-2" -> "1"
    [] seg = "2-3" -> "2"
    [] seg = "11-2" -> "11"
    [] OTHER -> ""

\* The positions at which re.search(r"/<word>/\d+", href) can match: a segment
\* equal to the word, after a "/", followed by a segment that starts with a digit.
PathMatches(segs, word) ==
  { i \in 2..(Len(segs) - 1) : segs[i] = word /\ LeadingDigits(segs[i + 1]) # "" }

\* soup.find_all / row.find with a filter: the elements that pass it, in document order.
find_all(elems, Pass(_)) == SelectSeq(elems, Pass)

\* element.find(...): the first element that passes, or None.
find(elems, Pass(_)) ==
  LET hits == SelectSeq(elems, Pass) IN IF hits = <<>> THEN None ELSE Some(hits[1])

IsCourseLink(a) == PathMatches(a.href, "courses") # {}
IsAssignmentLink(a) == PathMatches(a.href, "assignments") # {}

\* The course record of one course link.
CourseOf(link) ==
  LET href == link.href
      course_id == href[Len(href)]
      short_name == IF link.heading # None THEN link.heading[1] ELSE "Unknown Course"
      full_name == IF link.name_div # None THEN link.name_div[1] ELSE short_name
  IN [id |-> course_id, short_name |-> short_name, full_name |-> full_name,
      url |-> GRADESCOPE_BASE_URL \o HrefText(href)]

\* The loop of get_courses over the course links from position i on.
RECURSIVE CoursesLoop(_, _, _)
CoursesLoop(links, i, found) ==
  IF i > Len(links) THEN found
  ELSE CoursesLoop(links, i + 1, Append(found, CourseOf(links[i])))

\* GradescopeClient.get_courses on the parsed account page.
get_courses(anchors) == CoursesLoop(find_all(anchors, IsCourseLink), 1, <<>>)

\* bool(x) of an optional text: None and "" are falsy.
TruthyText(x) == x # None /\ x # Some("")

HasTitle(b) == b.has_title
IsDueTime(t) == t.due_class
\* The header test left out: no row is taken for a header.
IsHeaderRow_never(row) == FALSE

IsHeaderRow(row) == row.header
IsRow(tr) == tr.role = "row"

\* Method 3 of the due date: the first <time> whose aria-label contains "Due at"
\* gives its datetime attribute, or its text when that is missing or empty.
RECURSIVE DueAtLoop(_, _, _)
DueAtLoop(times, i, due_date) ==
  IF i > Len(times) THEN due_date
  ELSE IF times[i].due_at
       THEN (IF Truthy(times[i].datetime) THEN times[i].datetime ELSE Some(times[i].text))
       ELSE DueAtLoop(times, i + 1, due_date)

\* The due date by method 1 alone.
DueDateOf_attribute_only(row) ==
  IF find(row.times, IsDueTime) # None THEN find(row.times, IsDueTime)[1].datetime ELSE None

\* The due date of one row: the three methods in order.
DueDateOf(row) ==
  LET due_time_elem == find(row.times, IsDueTime)
      d1 == IF due_time_elem # None THEN due_time_elem[1].datetime ELSE None
      d2 == IF ~Truthy(d1)
            THEN (IF Len(row.hidden) >= 2 THEN Some(row.hidden[2]) ELSE d1)
            ELSE d1
  IN IF ~Truthy(d2) THEN DueAtLoop(row.times, 1, d2) ELSE d2

\* One pass of the loop body of get_assignments for a row that is not a header:
\* None when the row is skipped (no name), else the assignment record.
AssignmentOf(row, course_id) ==
  LET name_link == find(row.anchors, IsAssignmentLink)
      name1 == IF name_link # None THEN Some(name_link[1].text) ELSE None
      href == IF name_link # None THEN Some(HrefText(name_link[1].href)) ELSE None
      aid1 == IF name_link # None
              THEN (LET segs == name_link[1].href
                        at == PathMatches(segs, "assignments")
                    IN IF at # {}
                       THEN Some(LeadingDigits(segs[(CHOOSE i \in at : \A j \in at : i <= j) + 1]))
                       ELSE None)
              ELSE None
      submit_button == IF ~TruthyText(name1) THEN find(row.buttons, HasTitle) ELSE None
      name == IF submit_button # None THEN Some(submit_button[1].title) ELSE name1
      aid == IF submit_button # None THEN submit_button[1].id ELSE aid1
  IN IF ~TruthyText(name) THEN None
     ELSE Some([name |-> name[1],
                id |-> aid,
                due_date |-> DueDateOf(row),
                url |-> IF TruthyText(href) THEN Some(GRADESCOPE_BASE_URL \o href[1])
                        ELSE IF TruthyText(aid)
                             THEN Some(GRADESCOPE_BASE_URL \o "/courses/" \o course_id
                                       \o "/assignments/" \o aid[1])
                             ELSE None])

\* The loop of get_assignments over the rows from position i on.
RECURSIVE AssignmentsLoop(_, _, _, _)
AssignmentsLoop(rows, i, course_id, found) ==
  IF i > Len(rows) THEN found
  ELSE IF IsHeaderRow(rows[i]) THEN AssignmentsLoop(rows, i + 1, course_id, found)
  ELSE LET a == AssignmentOf(rows[i], course_id)
       IN IF a = None THEN AssignmentsLoop(rows, i + 1, course_id, found)
          ELSE AssignmentsLoop(rows, i + 1, course_id, Append(found, a[1]))

\* GradescopeClient.get_assignments on the parsed course page.
get_assignments(trs, course_id) == AssignmentsLoop(find_all(trs, IsRow), 1, course_id, <<>>)

\* ------------------------------------------------------------------------
\* The event projector (ical_generator.create_event / create_calendar)
\* ------------------------------------------------------------------------

\* A dict entry is <<>> when the key is missing and <<value>> when it is set
\* (the value itself may be None).
Missing == <<>>
Entry(v) == <<v>>

\* dict.get(key, default)
dict_get(entry, default) == IF entry = Missing THEN default ELSE entry[1]

\* An optional text inside an f-string: None is written "None".
fstr(v) == IF v = None THEN "None" ELSE v[1]

\* The outcome of create_event: an event, None, or the normaliser's ValueError.
Event(summary, uid, dtstart, description, url) ==
  [tag |-> "event", summary |-> summary, uid |-> uid, dtstart |-> dtstart,
   dtend |-> dtstart, description |-> description, url |-> url]
NoEvent == [tag |-> "None", summary |-> "", uid |-> "", dtstart |-> NoDate,
            dtend |-> NoDate, description |-> "", url |-> None]
EventError == [NoEvent EXCEPT !.tag = "ValueError"]

\* The uid create_event builds from the two ids.
UidOf(assignment) ==
  LET course_id == dict_get(assignment.course_id, Some("unknown"))
      assignment_id == dict_get(assignment.assignment_id, Some("unknown"))
  IN fstr(course_id) \o "-" \o fstr(assignment_id) \o "@gradescope-sync"

\* create_event after the call of parse_date: None when there is no date, else
\* the event (dtstamp, the time of the call, is not kept).
BuildEvent(assignment, due_date, url) ==
  IF due_date.tag = "ValueError" THEN EventError
  ELSE IF due_date.tag = "None" THEN NoEvent
  ELSE Event(assignment.name \o " - " \o assignment.course_name,
             UidOf(assignment),
             due_date,
             "Course: " \o fstr(dict_get(assignment.course_full_name,
                                         Some(assignment.course_name)))
               \o (IF TruthyText(url) THEN "\nLink: " \o url[1] ELSE ""),
             IF TruthyText(url) THEN url ELSE None)

\* ical_generator.create_event
create_event(assignment, year) ==
  BuildEvent(assignment, parse_date(dict_get(assignment.due_date, None), year),
             dict_get(assignment.url, None))

\* The loop of create_calendar: the events of the assignments from position i
\* on, in order; <<EventError>> alone when the normaliser raises on one of them.
RECURSIVE create_calendar(_, _, _, _)
RECURSIVE AddComponent(_, _, _, _, _)
AddComponent(event, collected, i, year, components) ==
  IF event.tag = "ValueError" THEN <<EventError>>
  ELSE create_calendar(collected, i + 1, year,
                       IF event.tag = "None" THEN components ELSE Append(components, event))

create_calendar(collected, i, year, components) ==
  IF i > Len(collected) THEN components
  ELSE AddComponent(create_event(collected[i], year), collected, i, year, components)

\* generate_ical.main: the dict handed to the iCal generator for one assignment.
IcalDict(crs, assignment) ==
  [name |-> assignment.name,
   course_name |-> crs.short_name,
   course_full_name |-> Entry(Some(crs.full_name)),
   course_id |-> Entry(Some(crs.id)),
   assignment_id |-> Entry(assignment.id),
   due_date |-> Entry(assignment.due_date),
   url |-> Entry(assignment.url)]

\* ------------------------------------------------------------------------
\* The remote upsert (GoogleCalendarClient.find_event / create_or_update_event)
\* ------------------------------------------------------------------------

\* maxResults of the events().list call of find_event.
maxResults == 10

\* An event of a remote calendar.
RemoteEvent(id, summary, description, start) ==
  [id |-> id, summary |-> summary, description |-> description, start |-> start,
   end |-> start]

\* events().list(q=title, maxResults=10): the events the search returns, at
\* most maxResults of them (an event whose summary is the query text matches).
events_list(events, q) ==
  LET items == SelectSeq(events, LAMBDA e : e.summary = q)
  IN IF Len(items) > maxResults THEN SubSeq(items, 1, maxResults) ELSE items

\* find_event: the first listed event whose summary is the title; None when
\* there is none, or when the list request fails (the exception is swallowed).
find_event(events, title, list_ok) ==
  IF ~list_ok THEN None
  ELSE LET items == SelectSeq(events_list(events, title), LAMBDA e : e.summary = title)
       IN IF items = <<>> THEN None ELSE Some(items[1])

\* events().update(eventId=..., body=...): the event keeps its id and gets the body.
events_update(events, event_id, body) ==
  [k \in 1..Len(events) |-> IF events[k].id = event_id
                            THEN [body EXCEPT !.id = event_id] ELSE events[k]]

\* events().insert(body=...): a new event with a fresh id.
events_insert(events, new_id, body) == Append(events, [body EXCEPT !.id = new_id])

\* An upsert that does nothing and reports neither 'created' nor 'updated'.
Upsert_unreported(events, new_id, event_body, event_datetime, existing_event, write_ok) ==
  [action |-> "unreported", events |-> events]

\* create_or_update_event after the call of _parse_date.
Upsert(events, new_id, event_body, event_datetime, existing_event, write_ok) ==
  IF event_datetime.tag = "ValueError" THEN [action |-> "ValueError", events |-> events]
  ELSE IF event_datetime.tag = "None" THEN [action |-> "None", events |-> events]
  ELSE IF ~write_ok THEN [action |-> "HttpError", events |-> events]
  ELSE IF existing_event # None
       THEN [action |-> "updated",
             events |-> events_update(events, existing_event[1].id,
                                      [event_body EXCEPT !.start = event_datetime,
                                                         !.end = event_datetime])]
       ELSE [action |-> "created",
             events |-> events_insert(events, new_id,
                                      [event_body EXCEPT !.start = event_datetime,
                                                         !.end = event_datetime])]

\* create_or_update_event on one calendar.  list_ok / write_ok: whether the
\* remote service answers the list request and the update or insert request.
\* action is "None" (date not parsed), "updated", "created", "ValueError"
\* (raised by _parse_date) or "HttpError" (raised by the update or insert).
create_or_update_event(events, new_id, title, due_date, description, year, list_ok, write_ok) ==
  Upsert(events, new_id, RemoteEvent(0, title, description, NoDate),
         _parse_date(due_date, year), find_event(events, title, list_ok), write_ok)

\* get_calendar_id without the comparison of names: the first listed calendar.
get_calendar_id_first(listed, calendar_name, list_ok) ==
  IF listed = <<>> THEN None ELSE Some(listed[1].id)

\* get_calendar_id: the id of the first listed calendar with that name; None
\* when there is none or the list request fails.
get_calendar_id(listed, calendar_name, list_ok) ==
  IF ~list_ok THEN None
  ELSE LET hits == SelectSeq(listed, LAMBDA c : c.summary = calendar_name)
       IN IF hits = <<>> THEN None ELSE Some(hits[1].id)

\* sync_gradescope.main, the body of the loop over a course's assignments:
\* what it does with one assignment on the target calendar.
SyncAssignment(events, new_id, crs, assignment, year, list_ok, write_ok) ==
  IF ~Truthy(assignment.due_date) THEN [action |-> "no due date", events |-> events]
  ELSE LET title == assignment.name \o " - " \o crs.short_name
           course_line == "Course: " \o crs.full_name \o "\n"
           description == IF TruthyText(assignment.url)
                          THEN course_line \o "Link: " \o assignment.url[1]
                          ELSE course_line
       IN create_or_update_event(events, new_id, title, assignment.due_date,
                                 description, year, list_ok, write_ok)

\* save_ics_file: the VEVENTs written to the file, <<EventError>> when
\* create_calendar raises before the file is opened.
save_ics_file(collected, year) == create_calendar(collected, 1, year, <<>>)

\* cleanup_old_events: course_patterns
course_patterns ==
  <<"COMPSCI 61B", "CS 70", "LS 22", "MATH 54", "Math 54", "ASTRON C10", "CS 198">>

\* maxResults of the events().list call of cleanup_old_events.
cleanupMaxResults == 100

\* pattern in title
Contains(pattern, title) ==
  \E i \in 1..(Len(title) - Len(pattern) + 1) :
    SubSeq(title, i, i + Len(pattern) - 1) = pattern

\* Any title with " - " counts as an event of the tool.
LooksLikeGradescope_any(title) == Contains(" - ", title)

\* cleanup_old_events: the loop over course_patterns deletes (and breaks) at
\* the first pattern with: pattern in title and ' - ' in title.
LooksLikeGradescope(title) ==
  \E k \in 1..Len(course_patterns) :
    Contains(course_patterns[k], title) /\ Contains(" - ", title)

\* events().list(calendarId='primary', maxResults=100, pageToken=...): the
\* page that starts after the offset the token stands for, and the next token.
events_page(events, token) ==
  LET from == IF token = None THEN 0 ELSE token[1]
      upto == IF Len(events) > from + cleanupMaxResults
              THEN from + cleanupMaxResults ELSE Len(events)
  IN [items |-> SubSeq(events, from + 1, upto),
      nextPageToken |-> IF upto < Len(events) THEN Some(upto) ELSE None]

\* events().delete(calendarId='primary', eventId=...)
events_delete(events, event_id) == SelectSeq(events, LAMBDA e : e.id # event_id)

\* __main__ of sync_gradescope.py: len(sys.argv) > 1 and sys.argv[1] == "--cleanup"
CleanupSelected(args) == Len(args) > 0 /\ args[1] = "--cleanup"

\* ------------------------------------------------------------------------
\* The date normaliser on its own: one input, each normaliser called once
\* ------------------------------------------------------------------------

RefYears == {2026, 2028}
MonthNames == {"January", "Jan", "February", "Feb", "May", "Sept"}
Days == {1, 29, 30, 32}
Hours == {0, 4, 12, 13}
Minutes == {30, 60}
Markers == {"AM", "PM", "pm"}
WrittenYears == {0, 2026, 2028}

HumanInputs ==
  { Human(pad, prefix, month, day, year, at, hour, minute, space, ampm) :
      pad \in BOOLEAN, prefix \in BOOLEAN, month \in MonthNames, day \in Days,
      year \in WrittenYears, at \in BOOLEAN, hour \in Hours, minute \in Minutes,
      space \in BOOLEAN, ampm \in Markers }

IsoInputs ==
  { Iso(year, 2, day, sep, hour, 30, 0, tz) :
      year \in RefYears, day \in Days, sep \in {"T", " "}, hour \in {0, 13, 24},
      tz \in {"", "-0800", " -0800"} }

SlashInputs ==
  { Slash(monthNum, day, 2026, hour, 30, ampm) :
      monthNum \in {1, 13}, day \in Days, hour \in Hours, ampm \in Markers }

DateInputs ==
  {None} \cup { Some(s) : s \in {EmptyStr, BlankStr, TextStr} \cup HumanInputs \cup IsoInputs \cup SlashInputs }

parseVars == <<date_str, current_year, parsed, parsed_gcal>>
extractVars == <<extract_fn, account_page, course_page, course_id_arg, courses_out, assignments_out>>
runVars == <<mode, pc, failure, exit_status, courses, course, assignments, remote,
             calendar_list, calendars_listed, calendar_id, next_event_id, total_created, total_updated,
             total_skipped, all_assignments, ics_file, remote_before, handled,
             unschedulable, last_call, argv, page_events, page_token, deleted,
             extracted>>
orderVars == <<order_a, order_b, events_a, events_b, ics_a, ics_b>>
vars == <<parseVars, extractVars, calls, runVars, orderVars>>

ParseIdle ==
  /\ date_str = None
  /\ current_year = 2026
  /\ parsed = None
  /\ parsed_gcal = None

ExtractIdle ==
  /\ extract_fn = "none"
  /\ account_page = <<>>
  /\ course_page = <<>>
  /\ course_id_arg = ""
  /\ courses_out = None
  /\ assignments_out = None

ProjectIdle == calls = <<>>

RunIdle ==
  /\ mode = "none"
  /\ pc = "idle"
  /\ failure = ""
  /\ exit_status = -1
  /\ courses = <<>>
  /\ course = None
  /\ assignments = <<>>
  /\ remote = [primary |-> <<>>, berkeley |-> <<>>]
  /\ calendar_list = <<>>
  /\ calendar_id = "primary"
  /\ calendars_listed = None
  /\ next_event_id = 1
  /\ total_created = 0
  /\ total_updated = 0
  /\ total_skipped = 0
  /\ all_assignments = <<>>
  /\ ics_file = None
  /\ remote_before = [primary |-> <<>>, berkeley |-> <<>>]
  /\ handled = 0
  /\ extracted = 0
  /\ unschedulable = 0
  /\ last_call = None
  /\ argv = <<>>
  /\ page_events = <<>>
  /\ page_token = None
  /\ deleted = <<>>

OrderIdle ==
  /\ order_a = <<>>
  /\ order_b = <<>>
  /\ events_a = <<>>
  /\ events_b = <<>>
  /\ ics_a = None
  /\ ics_b = None

InitParse ==
  /\ date_str \in DateInputs
  /\ current_year \in RefYears
  /\ parsed = None
  /\ parsed_gcal = None
  /\ ExtractIdle
  /\ ProjectIdle
  /\ RunIdle
  /\ OrderIdle

\* parse_date(date_str)
CallParseDate ==
  /\ parsed = None
  /\ parsed' = Some(parse_date(date_str, current_year))
  /\ UNCHANGED <<date_str, current_year, parsed_gcal, extractVars, calls, runVars, orderVars>>

\* GoogleCalendarClient._parse_date(date_str)
CallParseDateGcal ==
  /\ parsed_gcal = None
  /\ parsed_gcal' = Some(_parse_date(date_str, current_year))
  /\ UNCHANGED <<date_str, current_year, parsed, extractVars, calls, runVars, orderVars>>

NextParse == CallParseDate \/ CallParseDateGcal


SpecParse == InitParse /\ [][NextParse]_vars

\* ------------------------------------------------------------------------
\* Claims about the date normaliser
\* ------------------------------------------------------------------------

\* The outcomes of the normaliser calls made so far.
ParseOutcomes == { o[1] : o \in {parsed, parsed_gcal} \ {None} }

\* C5: the date normaliser is total: for every input it returns a timestamp or
\* null and never raises.
C5_NormalizerNeverRaises ==
  \A r \in ParseOutcomes : r.tag \in {"datetime", "None"}

\* The month a written month name stands for (full or abbreviated), 0 when none.
WrittenMonth(name) ==
  IF \E i \in 1..12 : name \in {FullMonths[i], AbbrMonths[i]}
  THEN CHOOSE i \in 1..12 : name \in {FullMonths[i], AbbrMonths[i]}
  ELSE 0

\* The hour of the day a 12-hour clock reading stands for.
Clock24(h, marker) ==
  IF h = 12 THEN (IF marker \in {"PM", "pm"} THEN 12 ELSE 0)
  ELSE IF marker \in {"PM", "pm"} THEN h + 12 ELSE h

\* The input is written without a year.
YearLess == date_str # None /\ date_str[1].shape = "human" /\ date_str[1].year = 0

\* C6: every input without a year that the normaliser resolves gets the
\* reference year, and the month, day, hour and minute written in it.
C6_YearLessGetsReferenceYear ==
  \A r \in ParseOutcomes :
    (YearLess /\ r.tag = "datetime") =>
      /\ r.year = current_year
      /\ r.month = WrittenMonth(date_str[1].month)
      /\ r.day = date_str[1].day
      /\ r.hour = Clock24(date_str[1].hour, date_str[1].ampm)
      /\ r.minute = date_str[1].minute

\* C6 witness: a year-less input written for 4 PM on the 1st, resolved to the
\* reference year 2028 (not the year strptime fills in).
C6_Witness ==
  /\ YearLess
  /\ parsed # None /\ parsed[1].tag = "datetime"
  /\ parsed[1].year = 2028 /\ parsed[1].hour = 16
  /\ ~date_str[1].prefix /\ date_str[1].day = 1

\* The positions of the formats of a list that strptime accepts the text in.
Accepting(s, formats) ==
  { i \in 1..Len(formats) : strptime(s, formats[i]).tag = "datetime" }

\* The least of a non-empty set of positions.
First(S) == CHOOSE i \in S : \A j \in S : i <= j

\* C13: parse_date returns the result of the first strategy that succeeds, in
\* the order: formats with a year (in listed order), formats without a year
\* (in listed order), the permissive pattern; an input a format with a year
\* accepts keeps the year written in it, whatever the reference year.
C13_FirstStrategyWins ==
  (parsed # None /\ Truthy(date_str)) =>
    LET s == strip(date_str[1])
        with == Accepting(s, formats_with_year)
        without == Accepting(s, formats_without_year)
    IN IF with # {}
       THEN /\ parsed[1] = strptime(s, formats_with_year[First(with)])
            /\ parsed[1].year = s.year
       ELSE IF without # {}
       THEN parsed[1] = [strptime(s, formats_without_year[First(without)])
                           EXCEPT !.year = current_year]
       ELSE parsed[1] = RegexStrategy(s, current_year)

\* C13 witness: an input written with a year other than the reference year,
\* accepted by a format with a year, and resolved to the year written.
C13_Witness ==
  /\ parsed # None /\ parsed[1].tag = "datetime"
  /\ date_str # None /\ date_str[1].shape = "human"
  /\ date_str[1].year = 2026 /\ current_year = 2028
  /\ parsed[1].year = 2026

\* The input is left to the permissive pattern: no format accepts it and the
\* pattern matches it.
ByPattern ==
  /\ Truthy(date_str)
  /\ Accepting(strip(date_str[1]), formats_with_year) = {}
  /\ Accepting(strip(date_str[1]), formats_without_year) = {}
  /\ re_search(strip(date_str[1])) # None

\* C16: in the permissive strategy of either normaliser the written hour h
\* with its AM/PM marker (in either case) becomes: 0 for 12 AM, 12 for 12 PM,
\* else h + 12 when PM and h when AM; for h in 1..12 on an existing day and
\* minute a timestamp results, its hour in 0..23.
C16_TwelveHourClock ==
  \A r \in ParseOutcomes :
    ByPattern =>
      LET s == date_str[1]
          pm == s.ampm \in {"PM", "pm", "Pm", "pM"}
          expected == IF s.hour = 12 THEN (IF pm THEN 12 ELSE 0)
                      ELSE IF pm THEN s.hour + 12 ELSE s.hour
      IN /\ r.tag = "datetime" => r.hour = expected
         /\ ( /\ s.hour \in 1..12
              /\ WrittenMonth(s.month) # 0
              /\ s.day \in 1..DaysInMonth(current_year, WrittenMonth(s.month))
              /\ s.minute \in 0..59 )
            => r.tag = "datetime" /\ r.hour \in 0..23

\* C16 witness: an input like "Due Jan 1 at 12:30 AM", which only the pattern
\* resolves: 12 AM gave hour 0 in one normaliser and in the other.
C16_Witness ==
  /\ ByPattern
  /\ date_str[1].prefix
  /\ date_str[1].hour = 12 /\ date_str[1].ampm = "AM"
  /\ parsed # None /\ parsed[1].tag = "datetime" /\ parsed[1].hour = 0
  /\ parsed_gcal # None /\ parsed_gcal[1].tag = "datetime" /\ parsed_gcal[1].hour = 0

\* C17: ical_generator.parse_date and GoogleCalendarClient._parse_date agree
\* on every input in the same current year: the same timestamp, or None from
\* both, or the same exception from both.
C17_NormalizersAgree ==
  (parsed # None /\ parsed_gcal # None) => parsed[1] = parsed_gcal[1]

\* C17 witness: both normalisers were called on a text only the pattern
\* matches, for a day that does not exist, and both raised ValueError.
C17_Witness ==
  /\ ByPattern
  /\ parsed # None /\ parsed[1].tag = "ValueError"
  /\ parsed_gcal # None /\ parsed_gcal[1].tag = "ValueError"
  /\ date_str[1].day = 30 /\ date_str[1].month = "February"

\* ------------------------------------------------------------------------
\* The record extractor on its own: one page, one call
\* ------------------------------------------------------------------------

MaxLinks == 3
MaxRows == 2

Anchor(href, text, heading, name_div) ==
  [href |-> href, text |-> text, heading |-> heading, name_div |-> name_div]
Button(has_title, title, id) == [has_title |-> has_title, title |-> title, id |-> id]
Time(due_class, due_at, dt, text) ==
  [due_class |-> due_class, due_at |-> due_at, datetime |-> dt, text |-> text]
Tr(role, header, anchors, buttons, hidden, times) ==
  [role |-> role, header |-> header, anchors |-> anchors, buttons |-> buttons,
   hidden |-> hidden, times |-> times]

\* Due-date texts that occur on the pages.
DueIso == Iso(2026, 2, 1, "T", 13, 30, 0, "-0800")
DueJan == Human(FALSE, FALSE, "Jan", 1, 0, TRUE, 4, 30, FALSE, "PM")
DueMay == Human(FALSE, FALSE, "May", 1, 0, TRUE, 12, 30, TRUE, "AM")
DueFeb30 == Human(FALSE, FALSE, "February", 30, 0, TRUE, 12, 30, TRUE, "PM")

\* The <a> elements an account page is made of.
Links ==
  { Anchor(<<"", "courses", "1">>, "", Some("CS 70"), Some("Discrete Mathematics")),
    Anchor(<<"", "courses", "1">>, "", Some("CS 70"), None),
    Anchor(<<"", "courses", "2">>, "", None, None),
    Anchor(<<"", "courses", "1-2">>, "", Some("CS 61B"), None),
    Anchor(<<"", "courses", "1", "assignments">>, "Assignments", None, None),
    Anchor(<<"https:", "", "www.gradescope.com", "courses", "2">>, "", Some("CS 61B"), None),
    Anchor(<<"", "account">>, "Account", None, None) }

RECURSIVE SeqsUpTo(_, _)
SeqsUpTo(S, n) ==
  IF n = 0 THEN {<<>>}
  ELSE LET shorter == SeqsUpTo(S, n - 1)
       IN shorter \cup { Append(q, x) : q \in { r \in shorter : Len(r) = n - 1 }, x \in S }

AccountPages == SeqsUpTo(Links, MaxLinks)

HW1Link == Anchor(<<"", "courses", "1", "assignments", "11">>, "HW1", None, None)
DueTime == Time(TRUE, FALSE, Some(DueIso), DueJan)

AnchorChoices ==
  { <<>>,
    <<HW1Link>>,
    <<Anchor(<<"", "courses", "1", "assignments", "12">>, "", None, None)>>,
    <<Anchor(<<"", "help">>, "Help", None, None),
      Anchor(<<"", "courses", "1", "assignments", "11-2", "submissions", "3">>, "HW2", None, None)>> }

ButtonChoices ==
  { <<>>,
    <<Button(TRUE, "HW3", Some("3"))>>,
    <<Button(TRUE, "HW4", Some("2-3"))>>,
    <<Button(FALSE, "", None), Button(TRUE, "HW1", None)>>,
    <<Button(TRUE, "", Some("21"))>> }

TimeChoices ==
  { <<>>,
    <<DueTime>>,
    <<Time(TRUE, TRUE, None, DueMay)>>,
    <<Time(TRUE, FALSE, Some(EmptyStr), DueMay), Time(FALSE, TRUE, Some(DueIso), DueMay)>>,
    <<Time(FALSE, FALSE, Some(DueIso), DueMay), Time(FALSE, TRUE, None, DueJan)>>,
    <<Time(FALSE, TRUE, None, EmptyStr), Time(FALSE, TRUE, Some(DueIso), DueJan)>> }

HiddenChoices ==
  { <<>>, <<DueMay>>, <<TextStr, DueFeb30>>, <<DueJan, EmptyStr>> }

\* The <tr> elements a course page is made of: rows that differ in how the name
\* is given, rows that differ in how the due date is given, header rows, and a
\* <tr> without role="row".
TableRows ==
  { Tr("row", FALSE, a, b, <<>>, <<DueTime>>) : a \in AnchorChoices, b \in ButtonChoices }
  \cup { Tr("row", FALSE, <<HW1Link>>, <<>>, h, ts) : h \in HiddenChoices, ts \in TimeChoices }
  \cup { Tr("row", TRUE, a, <<>>, <<>>, <<>>) : a \in {<<>>, <<HW1Link>>} }
  \cup { Tr("", FALSE, <<HW1Link>>, <<>>, <<>>, <<DueTime>>) }

CoursePages == SeqsUpTo(TableRows, MaxRows)

InitExtract ==
  /\ \/ /\ extract_fn = "get_courses"
        /\ account_page \in AccountPages
        /\ course_page = <<>>
        /\ course_id_arg = ""
     \/ /\ extract_fn = "get_assignments"
        /\ account_page = <<>>
        /\ course_page \in CoursePages
        /\ course_id_arg = "1"
  /\ courses_out = None
  /\ assignments_out = None
  /\ ParseIdle
  /\ ProjectIdle
  /\ RunIdle
  /\ OrderIdle

\* gs_client.get_courses()
CallGetCourses ==
  /\ extract_fn = "get_courses"
  /\ courses_out = None
  /\ courses_out' = Some(get_courses(account_page))
  /\ UNCHANGED <<extract_fn, account_page, course_page, course_id_arg, assignments_out, parseVars, calls, runVars, orderVars>>

\* gs_client.get_assignments(course_id)
CallGetAssignments ==
  /\ extract_fn = "get_assignments"
  /\ assignments_out = None
  /\ assignments_out' = Some(get_assignments(course_page, course_id_arg))
  /\ UNCHANGED <<extract_fn, account_page, course_page, course_id_arg, courses_out, parseVars, calls, runVars, orderVars>>

NextExtract == CallGetCourses \/ CallGetAssignments

SpecExtract == InitExtract /\ [][NextExtract]_vars

\* ------------------------------------------------------------------------
\* Claims about the record extractor
\* ------------------------------------------------------------------------

\* The name the anchor strategy yields for a row ("" when it yields none).
AnchorName(row) ==
  LET hits == SelectSeq(row.anchors, IsAssignmentLink) IN IF hits = <<>> THEN "" ELSE hits[1].text

\* The name the button strategy yields for a row ("" when it yields none).
ButtonName(row) ==
  LET hits == SelectSeq(row.buttons, HasTitle) IN IF hits = <<>> THEN "" ELSE hits[1].title

\* A row that must give a record: not a header, and one strategy yields a name.
GivesRecord(row) ==
  /\ row.role = "row"
  /\ ~row.header
  /\ AnchorName(row) # "" \/ ButtonName(row) # ""

\* C7: get_assignments returns, in document order, exactly one record for each
\* non-header row in which the anchor or the button strategy yields a non-empty
\* name; header rows and rows without a name give no record and do not stop
\* the rows after them from being processed.
C7_OneRecordPerNamedRow ==
  assignments_out # None =>
    LET named == SelectSeq(course_page, GivesRecord)
        out == assignments_out[1]
    IN /\ Len(out) = Len(named)
       /\ \A i \in 1..Len(out) :
            out[i].name = (IF AnchorName(named[i]) # "" THEN AnchorName(named[i])
                           ELSE ButtonName(named[i]))

\* C7 witness: a page whose first row is a header (or has no name) and whose
\* second row has a name, and the record of the second row is returned.
C7_Witness ==
  /\ assignments_out # None
  /\ Len(course_page) = 2
  /\ course_page[1].role = "row"
  /\ ~GivesRecord(course_page[1])
  /\ GivesRecord(course_page[2])
  /\ Len(assignments_out[1]) = 1

\* What each due-date strategy yields for a row on its own (None: nothing).
DueByAttribute(row) ==
  LET marked == SelectSeq(row.times, LAMBDA x : x.due_class)
  IN IF marked = <<>> THEN None ELSE marked[1].datetime
DueByHiddenCell(row) == IF Len(row.hidden) >= 2 THEN Some(row.hidden[2]) ELSE None
DueByLabel(row) ==
  LET labelled == SelectSeq(row.times, LAMBDA x : x.due_at)
  IN IF labelled = <<>> THEN None
     ELSE IF Truthy(labelled[1].datetime) THEN labelled[1].datetime
     ELSE Some(labelled[1].text)

\* C14: the due date of each record is the value of the first strategy that
\* yields a non-empty value, in the order: datetime attribute of the due-date
\* <time>, text of the second hidden cell, first <time> labelled "Due at";
\* when none yields one the record is still returned, its due date absent.
C14_DueDateFirstNonEmpty ==
  assignments_out # None =>
    LET named == SelectSeq(course_page, GivesRecord)
        out == assignments_out[1]
    IN /\ Len(out) = Len(named)
       /\ \A i \in 1..Len(out) :
            IF Truthy(DueByAttribute(named[i])) THEN out[i].due_date = DueByAttribute(named[i])
            ELSE IF Truthy(DueByHiddenCell(named[i])) THEN out[i].due_date = DueByHiddenCell(named[i])
            ELSE IF Truthy(DueByLabel(named[i])) THEN out[i].due_date = DueByLabel(named[i])
            ELSE ~Truthy(out[i].due_date)

\* C14 witness: a row whose due-date <time> has a datetime attribute and whose
\* second hidden cell holds another date; the record has the attribute's date.
C14_Witness ==
  /\ assignments_out # None
  /\ Len(course_page) = 1
  /\ Len(assignments_out[1]) = 1
  /\ DueByAttribute(course_page[1]) = Some(DueIso)
  /\ DueByHiddenCell(course_page[1]) = Some(DueFeb30)
  /\ assignments_out[1][1].due_date = Some(DueIso)

\* The anchor and the button the two name strategies look at in a row.
AnchorHit(row) == SelectSeq(row.anchors, IsAssignmentLink)[1]
ButtonHit(row) == SelectSeq(row.buttons, HasTitle)[1]

\* The path segment r"/assignments/(\d+)" captures from a link target.
CapturedId(href) ==
  LET at == PathMatches(href, "assignments")
  IN LeadingDigits(href[(CHOOSE i \in at : \A j \in at : i <= j) + 1])

\* C15: name, id and url of each record come from one strategy: when the
\* anchor strategy yields a name, the anchor's text, the id captured from its
\* target and the url built from its target; otherwise the button's title,
\* the button's id and the url built from the course id and that id (absent
\* when the id is absent).
C15_NameIdUrlFromOneStrategy ==
  assignments_out # None =>
    LET named == SelectSeq(course_page, GivesRecord)
        out == assignments_out[1]
    IN /\ Len(out) = Len(named)
       /\ \A i \in 1..Len(out) :
            IF AnchorName(named[i]) # ""
            THEN /\ out[i].name = AnchorHit(named[i]).text
                 /\ out[i].id = Some(CapturedId(AnchorHit(named[i]).href))
                 /\ out[i].url = Some(GRADESCOPE_BASE_URL \o HrefText(AnchorHit(named[i]).href))
            ELSE /\ out[i].name = ButtonHit(named[i]).title
                 /\ out[i].id = ButtonHit(named[i]).id
                 /\ out[i].url =
                      (IF TruthyText(ButtonHit(named[i]).id)
                       THEN Some(GRADESCOPE_BASE_URL \o "/courses/" \o course_id_arg
                                 \o "/assignments/" \o ButtonHit(named[i]).id[1])
                       ELSE None)

\* C8: within the sequence one get_courses call returns, course ids are
\* pairwise distinct.
C8_CourseIdsDistinct ==
  courses_out # None =>
    \A i, j \in 1..Len(courses_out[1]) :
      i # j => courses_out[1][i].id # courses_out[1][j].id

\* ------------------------------------------------------------------------
\* The event projector on its own: a few create_event calls
\* ------------------------------------------------------------------------

MaxCalls == 2

\* The course records get_courses returns for the links of the account page.
ExtractedCourses ==
  { get_courses(<<link>>)[1] : link \in { l \in Links : IsCourseLink(l) } }

\* The course-page rows that differ in how the name and the id are given.
NamedRows ==
  { Tr("row", FALSE, a, b, <<>>, <<DueTime>>) : a \in AnchorChoices, b \in ButtonChoices }

\* Dicts handed to create_event by a caller other than generate_ical.main.
DirectDicts ==
  { [name |-> "HW1", course_name |-> "CS 70", course_full_name |-> Missing,
     course_id |-> c, assignment_id |-> a, due_date |-> Entry(Some(DueJan)),
     url |-> Missing] :
      c \in {Missing, Entry(Some("1"))}, a \in {Missing, Entry(Some("11"))} }

InitProject ==
  /\ calls = <<>>
  /\ ParseIdle
  /\ ExtractIdle
  /\ RunIdle
  /\ OrderIdle

\* generate_ical.main formats one assignment extracted from a course's page and
\* create_event projects it.
ProjectAssignment ==
  /\ Len(calls) < MaxCalls
  /\ \E crs \in ExtractedCourses, row \in NamedRows :
       \E found \in {get_assignments(<<row>>, crs.id)} :
         /\ found # <<>>
         /\ \E d \in {IcalDict(crs, found[1])} :
              calls' = Append(calls, [args |-> d, event |-> create_event(d, current_year)])
  /\ UNCHANGED <<parseVars, extractVars, runVars, orderVars>>

\* create_event(assignment) on a dict that lacks some keys.
CallCreateEvent ==
  /\ Len(calls) < MaxCalls
  /\ \E d \in DirectDicts :
       calls' = Append(calls, [args |-> d, event |-> create_event(d, current_year)])
  /\ UNCHANGED <<parseVars, extractVars, runVars, orderVars>>

NextProject == ProjectAssignment \/ CallCreateEvent

SpecProject == InitProject /\ [][NextProject]_vars

\* ------------------------------------------------------------------------
\* Claims about the event projector
\* ------------------------------------------------------------------------

\* An id as the uid must show it: the id, or "unknown" when it is absent.
IdOrUnknown(entry) ==
  IF entry = Missing \/ entry[1] = None THEN "unknown" ELSE entry[1][1]

\* C2: every event built for a (course, assignment) pair has the uid
\* "<course id>-<assignment id>@gradescope-sync", with "unknown" in place of an
\* id that is absent, also for a record whose id is null as generate_ical.main
\* hands it to create_event.
C2_UidFormat ==
  \A k \in 1..Len(calls) :
    calls[k].event.tag = "event" =>
      calls[k].event.uid = IdOrUnknown(calls[k].args.course_id) \o "-"
                           \o IdOrUnknown(calls[k].args.assignment_id)
                           \o "@gradescope-sync"

\* Both ids of a call are given as texts.
HasBothIds(k) ==
  /\ calls[k].args.course_id # Missing /\ calls[k].args.course_id[1] # None
  /\ calls[k].args.assignment_id # Missing /\ calls[k].args.assignment_id[1] # None

\* C3: the uid is a function of (course id, assignment id), and two calls
\* whose course id or assignment id differs get different uids (stated for the
\* calls in which both ids are present).
C3_UidInjective ==
  \A j, k \in 1..Len(calls) :
    (calls[j].event.tag = "event" /\ calls[k].event.tag = "event"
     /\ HasBothIds(j) /\ HasBothIds(k)) =>
      /\ (calls[j].args.course_id = calls[k].args.course_id
          /\ calls[j].args.assignment_id = calls[k].args.assignment_id)
         => calls[j].event.uid = calls[k].event.uid
      /\ (calls[j].args.course_id # calls[k].args.course_id
          \/ calls[j].args.assignment_id # calls[k].args.assignment_id)
         => calls[j].event.uid # calls[k].event.uid

\* ------------------------------------------------------------------------
\* One run of sync_gradescope.main or of generate_ical.main
\* ------------------------------------------------------------------------

\* At most MaxCourses course links on the account page, and at most
\* MaxAssignments assignment rows over all the course pages of a run.
MaxCourses == 2
MaxAssignments == 2

\* The event a previous run left on a calendar.
OldEvent ==
  RemoteEvent(1, "HW1 - CS 70", "Course: Discrete Mathematics\n",
              DateTime(2026, 1, 1, 9, 0, 0, ""))

\* The course links of the account page of a run.
RunLinks ==
  { Anchor(<<"", "courses", "1">>, "", Some("CS 70"), Some("Discrete Mathematics")),
    Anchor(<<"", "courses", "2">>, "", None, None) }

\* The rows of the course pages of a run: a linked assignment with a datetime
\* attribute, an unsubmitted assignment of the same name with another due date,
\* one with no due date, one whose due date is no timestamp ("TBD"), one due
\* on February 30, and a header row.
RunRows ==
  { Tr("row", FALSE, <<HW1Link>>, <<>>, <<>>, <<DueTime>>),
    Tr("row", FALSE, <<>>, <<Button(TRUE, "HW1", None)>>, <<TextStr, DueJan>>, <<>>),
    Tr("row", FALSE, <<>>, <<Button(TRUE, "HW3", Some("3"))>>, <<>>, <<>>),
    Tr("row", FALSE, <<>>, <<Button(TRUE, "HW3", Some("3"))>>, <<TextStr, TextStr>>, <<>>),
    Tr("row", FALSE, <<>>, <<Button(TRUE, "HW4", Some("2-3"))>>, <<TextStr, DueFeb30>>, <<>>),
    Tr("row", TRUE, <<>>, <<>>, <<>>, <<>>) }

RunAccountPages == SeqsUpTo(RunLinks, MaxCourses)
RunCoursePages == SeqsUpTo(RunRows, MaxAssignments)

\* The events of the personal ('primary') calendar before a run: one a
\* previous run left, one whose title holds two course codes, one with a
\* course code and no " - ", and one that has nothing to do with a course.
PersonalCalendar ==
  << OldEvent,
     RemoteEvent(2, "MATH 54 - Math 54 review", "", DateTime(2026, 1, 2, 9, 0, 0, "")),
     RemoteEvent(3, "CS 70 lecture", "", DateTime(2026, 1, 3, 9, 0, 0, "")),
     RemoteEvent(4, "Dentist - 3pm", "", DateTime(2026, 1, 4, 9, 0, 0, "")) >>

\* sys.argv[1:]: no argument, the cleanup flag, the flag in second place.
Argvs == {<<>>, <<"--cleanup">>, <<"--verbose", "--cleanup">>}

PrimaryCalendar == [summary |-> "student@berkeley.edu", id |-> "primary"]
BerkeleyCalendar == [summary |-> "Berkeley Calendar", id |-> "berkeley"]

\* os.environ.get("GOOGLE_CALENDAR_NAME", "Berkeley Calendar")
target_calendar_name == "Berkeley Calendar"

\* The due date gives no timestamp: it is absent, or the normaliser does not
\* return one for it.
Unschedulable(due_date, year) ==
  ~Truthy(due_date) \/ _parse_date(due_date, year).tag # "datetime"

InitRun ==
  /\ mode \in {"sync", "ical"}
  /\ pc = "dispatch"
  /\ failure = ""
  /\ exit_status = -1
  /\ courses = <<>>
  /\ course = None
  /\ assignments = <<>>
  /\ remote \in {[primary |-> <<>>, berkeley |-> <<>>],
                 [primary |-> PersonalCalendar, berkeley |-> <<OldEvent>>]}
  /\ remote_before = remote
  /\ calendar_list \in {<<PrimaryCalendar>>, <<PrimaryCalendar, BerkeleyCalendar>>}
  /\ calendar_id = "primary"
  /\ calendars_listed = None
  /\ next_event_id = Len(PersonalCalendar) + 1
  /\ total_created = 0
  /\ total_updated = 0
  /\ total_skipped = 0
  /\ all_assignments = <<>>
  /\ ics_file = None
  /\ handled = 0
  /\ extracted = 0
  /\ unschedulable = 0
  /\ last_call = None
  /\ argv \in (IF mode = "sync" THEN Argvs ELSE {<<>>})
  /\ page_events = <<>>
  /\ page_token = None
  /\ deleted = <<>>
  /\ ParseIdle
  /\ ExtractIdle
  /\ ProjectIdle
  /\ OrderIdle

notRun == <<parseVars, extractVars, calls, orderVars>>
notCleanup == <<argv, page_events, page_token, deleted>>

\* sys.exit(1), from main's except clause or from a check before it.
Exit(cause) ==
  /\ pc' = "failed"
  /\ failure' = cause
  /\ exit_status' = 1

\* __main__: sync_gradescope.py runs cleanup_old_events when its first argument
\* is --cleanup and main otherwise; generate_ical.py runs its main.
Dispatch ==
  /\ pc = "dispatch"
  /\ pc' = IF mode = "sync" /\ CleanupSelected(argv) THEN "cleanup" ELSE "start"
  /\ UNCHANGED <<mode, failure, exit_status, courses, course, assignments, remote,
                 calendar_list, calendars_listed, calendar_id, next_event_id,
                 total_created, total_updated, total_skipped, all_assignments,
                 ics_file, remote_before, handled, unschedulable, last_call, extracted, notRun,
                 notCleanup>>

\* cleanup_old_events: setup_google_credentials() and GoogleCalendarClient(),
\* both before the try block.
CleanupSetup ==
  /\ pc = "cleanup"
  /\ \/ /\ pc' = "cleanup list"
        /\ UNCHANGED <<failure, exit_status>>
     \/ Exit("no google token")
     \/ Exit("no valid google credentials")
  /\ UNCHANGED <<mode, courses, course, assignments, remote, calendar_list,
                 calendars_listed, calendar_id, next_event_id, total_created,
                 total_updated, total_skipped, all_assignments, ics_file,
                 remote_before, handled, unschedulable, last_call, extracted, notRun, notCleanup>>

\* cleanup_old_events: events().list(calendarId='primary', ...).execute(); an
\* exception ends the loop (it is printed, the function returns).
CleanupList ==
  /\ pc = "cleanup list"
  /\ \/ /\ \E r \in {events_page(remote["primary"], page_token)} :
             /\ page_events' = r.items
             /\ page_token' = r.nextPageToken
        /\ pc' = "cleanup page"
        /\ UNCHANGED exit_status
     \/ /\ pc' = "done"
        /\ exit_status' = 0
        /\ UNCHANGED <<page_events, page_token>>
  /\ UNCHANGED <<mode, failure, courses, course, assignments, remote, calendar_list,
                 calendars_listed, calendar_id, next_event_id, total_created,
                 total_updated, total_skipped, all_assignments, ics_file,
                 remote_before, handled, unschedulable, last_call, argv, deleted,
                 extracted, notRun>>

\* cleanup_old_events: one event of the page; a failed delete request ends
\* the loop like a failed list request.
CleanupEvent ==
  /\ pc = "cleanup page"
  /\ page_events # <<>>
  /\ page_events' = Tail(page_events)
  /\ IF LooksLikeGradescope(page_events[1].summary)
     THEN /\ deleted' = Append(deleted, page_events[1].id)
          /\ \/ /\ remote' = [remote EXCEPT !["primary"] = events_delete(@, page_events[1].id)]
                /\ UNCHANGED <<pc, exit_status>>
             \/ /\ pc' = "done"
                /\ exit_status' = 0
                /\ UNCHANGED remote
     ELSE UNCHANGED <<deleted, remote, pc, exit_status>>
  /\ UNCHANGED <<mode, failure, courses, course, assignments, calendar_list,
                 calendars_listed, calendar_id, next_event_id, total_created,
                 total_updated, total_skipped, all_assignments, ics_file,
                 remote_before, handled, unschedulable, last_call, argv, page_token,
                 extracted, notRun>>

\* cleanup_old_events: the page is exhausted; the next page is fetched when
\* there is a nextPageToken, else the count is printed and the script ends.
CleanupPageEnd ==
  /\ pc = "cleanup page"
  /\ page_events = <<>>
  /\ IF page_token # None
     THEN pc' = "cleanup list" /\ UNCHANGED exit_status
     ELSE pc' = "done" /\ exit_status' = 0
  /\ UNCHANGED <<mode, failure, courses, course, assignments, remote, calendar_list,
                 calendars_listed, calendar_id, next_event_id, total_created,
                 total_updated, total_skipped, all_assignments, ics_file,
                 remote_before, handled, unschedulable, last_call, extracted, notRun, notCleanup>>

\* main: the environment checks before the try block (the Gradescope
\* credentials; for a sync also the Google token).
Setup ==
  /\ pc = "start"
  /\ \/ /\ pc' = "login"
        /\ UNCHANGED <<failure, exit_status>>
     \/ Exit("missing credentials")
     \/ mode = "sync" /\ Exit("no google token")
  /\ UNCHANGED <<mode, courses, course, assignments, remote, calendar_list, calendars_listed, calendar_id,
                 next_event_id, total_created, total_updated, total_skipped,
                 all_assignments, ics_file, remote_before, handled, unschedulable,
                 last_call, extracted, notRun, notCleanup>>

\* GradescopeClient._login
Login ==
  /\ pc = "login"
  /\ \/ /\ pc' = "fetch courses"
        /\ UNCHANGED <<failure, exit_status>>
     \/ \E cause \in {"no csrf token", "invalid credentials", "unexpected redirect",
                      "login request failed"} : Exit(cause)
  /\ UNCHANGED <<mode, courses, course, assignments, remote, calendar_list, calendars_listed, calendar_id,
                 next_event_id, total_created, total_updated, total_skipped,
                 all_assignments, ics_file, remote_before, handled, unschedulable,
                 last_call, extracted, notRun, notCleanup>>

\* courses = gs_client.get_courses()
FetchCourses ==
  /\ pc = "fetch courses"
  /\ \/ /\ \E page \in RunAccountPages : courses' = get_courses(page)
        /\ pc' = IF mode = "sync" THEN "connect" ELSE "loop"
        /\ UNCHANGED <<failure, exit_status>>
     \/ /\ Exit("course list fetch failed")
        /\ UNCHANGED courses
  /\ UNCHANGED <<mode, course, assignments, remote, calendar_list, calendars_listed, calendar_id,
                 next_event_id, total_created, total_updated, total_skipped,
                 all_assignments, ics_file, remote_before, handled, unschedulable,
                 last_call, extracted, notRun, notCleanup>>

\* gcal_client = GoogleCalendarClient()
ConnectCalendar ==
  /\ pc = "connect"
  /\ \/ /\ pc' = "select calendar"
        /\ UNCHANGED <<failure, exit_status>>
     \/ Exit("no valid google credentials")
  /\ UNCHANGED <<mode, courses, course, assignments, remote, calendar_list, calendars_listed, calendar_id,
                 next_event_id, total_created, total_updated, total_skipped,
                 all_assignments, ics_file, remote_before, handled, unschedulable,
                 last_call, extracted, notRun, notCleanup>>

\* calendar_id = gcal_client.get_calendar_id(target_calendar_name), 'primary' when None
SelectCalendar ==
  /\ pc = "select calendar"
  /\ \E list_ok \in BOOLEAN :
       /\ LET found == get_calendar_id(calendar_list, target_calendar_name, list_ok)
          IN calendar_id' = IF found # None THEN found[1] ELSE "primary"
       /\ calendars_listed' = Some(list_ok)
  /\ pc' = "loop"
  /\ UNCHANGED <<mode, failure, exit_status, courses, course, assignments, remote,
                 calendar_list, next_event_id, total_created, total_updated,
                 total_skipped, all_assignments, ics_file, remote_before, handled,
                 unschedulable, last_call, extracted, notRun, notCleanup>>

\* for course in courses: assignments = gs_client.get_assignments(course['id'])
FetchAssignments ==
  /\ pc = "loop"
  /\ assignments = <<>>
  /\ courses # <<>>
  /\ \/ /\ \E page \in RunCoursePages :
             /\ Len(page) <= MaxAssignments - handled
             /\ assignments' = get_assignments(page, courses[1].id)
             /\ extracted' = extracted + Len(get_assignments(page, courses[1].id))
        /\ course' = Some(courses[1])
        /\ courses' = Tail(courses)
        /\ UNCHANGED <<pc, failure, exit_status>>
     \/ /\ Exit("assignment page fetch failed")
        /\ UNCHANGED <<courses, course, assignments, extracted>>
  /\ UNCHANGED <<mode, remote, calendar_list, calendars_listed, calendar_id, next_event_id, total_created,
                 total_updated, total_skipped, all_assignments, ics_file,
                 remote_before, handled, unschedulable, last_call, notRun, notCleanup>>

\* sync_gradescope.main: one pass of the loop over the course's assignments.
SyncNext ==
  /\ mode = "sync"
  /\ pc = "loop"
  /\ assignments # <<>>
  /\ \E list_ok \in BOOLEAN, write_ok \in BOOLEAN, assignment \in {assignments[1]} :
       \E r \in {SyncAssignment(remote[calendar_id], next_event_id, course[1], assignment,
                                current_year, list_ok, write_ok)} :
          /\ remote' = [remote EXCEPT ![calendar_id] = r.events]
          /\ next_event_id' = IF r.action = "created" THEN next_event_id + 1 ELSE next_event_id
          /\ total_created' = IF r.action = "created" THEN total_created + 1 ELSE total_created
          /\ total_updated' = IF r.action = "updated" THEN total_updated + 1 ELSE total_updated
          /\ total_skipped' = IF r.action \in {"no due date", "None"}
                              THEN total_skipped + 1 ELSE total_skipped
          /\ last_call' = IF r.action = "no due date" THEN last_call
                          ELSE Some([title |-> assignment.name \o " - " \o course[1].short_name,
                                     action |-> r.action])
          /\ unschedulable' = IF Unschedulable(assignment.due_date, current_year)
                              THEN unschedulable + 1 ELSE unschedulable
          /\ IF r.action \in {"ValueError", "HttpError"}
             THEN Exit(r.action)
             ELSE UNCHANGED <<pc, failure, exit_status>>
  /\ handled' = handled + 1
  /\ assignments' = Tail(assignments)
  /\ UNCHANGED <<mode, courses, course, calendar_list, calendars_listed, calendar_id, all_assignments,
                 ics_file, remote_before, extracted, notRun, notCleanup>>

\* generate_ical.main: one pass of the loop over the course's assignments.
CollectNext ==
  /\ mode = "ical"
  /\ pc = "loop"
  /\ assignments # <<>>
  /\ all_assignments' = IF ~Truthy(assignments[1].due_date) THEN all_assignments
                        ELSE Append(all_assignments, IcalDict(course[1], assignments[1]))
  /\ unschedulable' = IF Unschedulable(assignments[1].due_date, current_year)
                      THEN unschedulable + 1 ELSE unschedulable
  /\ handled' = handled + 1
  /\ assignments' = Tail(assignments)
  /\ UNCHANGED <<mode, pc, failure, exit_status, courses, course, remote, calendar_list, calendars_listed,
                 calendar_id, next_event_id, total_created, total_updated,
                 total_skipped, ics_file, remote_before, last_call, extracted, notRun, notCleanup>>

\* sync_gradescope.main: the totals are printed and main returns.
FinishSync ==
  /\ mode = "sync"
  /\ pc = "loop"
  /\ assignments = <<>>
  /\ courses = <<>>
  /\ pc' = "done"
  /\ exit_status' = 0
  /\ UNCHANGED <<mode, failure, courses, course, assignments, remote, calendar_list, calendars_listed,
                 calendar_id, next_event_id, total_created, total_updated,
                 total_skipped, all_assignments, ics_file, remote_before, handled,
                 unschedulable, last_call, extracted, notRun, notCleanup>>

\* generate_ical.main: save_ics_file(all_assignments, output_path)
SaveIcs ==
  /\ mode = "ical"
  /\ pc = "loop"
  /\ assignments = <<>>
  /\ courses = <<>>
  /\ \E vevents \in {save_ics_file(all_assignments, current_year)} :
        \/ /\ vevents = <<EventError>>
           /\ Exit("ValueError")
           /\ UNCHANGED ics_file
        \/ /\ vevents # <<EventError>>
           /\ ics_file' = Some(vevents)
           /\ pc' = "done"
           /\ exit_status' = 0
           /\ UNCHANGED failure
        \/ /\ vevents # <<EventError>>
           /\ Exit("file not written")
           /\ UNCHANGED ics_file
  /\ UNCHANGED <<mode, courses, course, assignments, remote, calendar_list, calendars_listed, calendar_id,
                 next_event_id, total_created, total_updated, total_skipped,
                 all_assignments, remote_before, handled, unschedulable, last_call,
                 extracted, notRun, notCleanup>>

Next ==
  \/ Dispatch
  \/ CleanupSetup
  \/ CleanupList
  \/ CleanupEvent
  \/ CleanupPageEnd
  \/ Setup
  \/ Login
  \/ FetchCourses
  \/ ConnectCalendar
  \/ SelectCalendar
  \/ FetchAssignments
  \/ SyncNext
  \/ CollectNext
  \/ FinishSync
  \/ SaveIcs

Spec == InitRun /\ [][Next]_vars

\* ------------------------------------------------------------------------
\* Claims about a run
\* ------------------------------------------------------------------------

\* How many events of a calendar have the summary.
CountTitle(events, title) == Cardinality({ k \in 1..Len(events) : events[k].summary = title })

\* C1: on a calendar that held at most one event per title, after a
\* create_or_update_event call with title T and a parseable due date completes,
\* the calendar holds exactly one event whose summary is T.
C1_OneEventPerTitle ==
  (last_call # None /\ last_call[1].action \in {"created", "updated"}) =>
    CountTitle(remote[calendar_id], last_call[1].title) = 1

\* C4: an assignment whose due date is absent or cannot be normalised never
\* produces a calendar event (no remote insert or update, no VEVENT in the
\* file), and each such assignment is counted exactly once as skipped in the
\* totals of the sync run.
C4_UnschedulableSkippedOnce ==
  /\ mode = "sync" =>
       /\ total_skipped = unschedulable
       /\ total_created + total_updated <= handled - unschedulable
  /\ ics_file # None => Len(ics_file[1]) <= handled - unschedulable

\* The fatal transport and authentication failures: no login token, rejected
\* credentials, unexpected redirect, a failed fetch of the course list or of a
\* course's assignment page.
TransportOrAuthFailures ==
  {"no csrf token", "invalid credentials", "unexpected redirect",
   "course list fetch failed", "assignment page fetch failed"}

\* C10: a run that ends with a fatal transport or authentication failure exits
\* with a non-zero status and leaves the calendar state as it was before the
\* run: no event created or updated remotely, no calendar file written.
C10_FatalFailureLeavesCalendar ==
  (pc = "failed" /\ failure \in TransportOrAuthFailures) =>
    /\ exit_status # 0
    /\ remote = remote_before
    /\ ics_file = None

\* The listed calendars that carry the name.
Named(listed, calendar_name) == SelectSeq(listed, LAMBDA c : c.summary = calendar_name)

\* C11: a failed calendar listing, or no calendar of the target name, does not
\* abort the sync: the run goes on and writes to 'primary'; when a calendar of
\* the target name is found the run writes to that calendar; and the run
\* changes the events of no calendar but the one selected.
C11_OneTargetCalendar ==
  calendars_listed # None =>
    /\ calendar_id =
         (IF calendars_listed[1] /\ Named(calendar_list, target_calendar_name) # <<>>
          THEN Named(calendar_list, target_calendar_name)[1].id ELSE "primary")
    /\ \A c \in DOMAIN remote \ {calendar_id} : remote[c] = remote_before[c]
    /\ pc = "failed" => failure \in {"assignment page fetch failed", "ValueError", "HttpError"}

\* C11 witness: the target calendar exists but the listing failed, and the run
\* went on and created an event on 'primary'.
C11_Witness ==
  /\ calendars_listed = Some(FALSE)
  /\ Named(calendar_list, target_calendar_name) # <<>>
  /\ calendar_id = "primary"
  /\ total_created = 1
  /\ Len(remote["primary"]) = Len(remote_before["primary"]) + 1
  /\ remote["berkeley"] = remote_before["berkeley"]

\* The title holds one of the course codes.
HasCourseCode(title) == \E k \in 1..Len(course_patterns) : Contains(course_patterns[k], title)

\* The ids of the events of a calendar.
EventIds(events) == { events[k].id : k \in 1..Len(events) }

\* C12: cleanup deletes from the primary calendar only events whose title
\* holds one of the course codes, issues at most one delete request per event,
\* and leaves every event without a course code (and every other calendar) as
\* it was; a delete request is issued only when the first argument is the
\* cleanup flag, and without it the run removes no event from any calendar.
C12_CleanupDeletesOnlyCourseEvents ==
  LET before == remote_before["primary"]
  IN /\ \A k \in 1..Len(deleted) :
          \E j \in 1..Len(before) :
            before[j].id = deleted[k] /\ HasCourseCode(before[j].summary)
     /\ \A i, j \in 1..Len(deleted) : i # j => deleted[i] # deleted[j]
     /\ deleted # <<>> => mode = "sync" /\ CleanupSelected(argv)
     /\ (mode = "sync" /\ CleanupSelected(argv)) =>
          /\ \A j \in 1..Len(before) :
               ~HasCourseCode(before[j].summary) =>
                 \E k \in 1..Len(remote["primary"]) : remote["primary"][k] = before[j]
          /\ EventIds(remote["primary"]) \cup { deleted[k] : k \in 1..Len(deleted) }
                = EventIds(before)
          /\ remote["berkeley"] = remote_before["berkeley"]
     /\ ~(mode = "sync" /\ CleanupSelected(argv)) =>
          \A c \in DOMAIN remote : EventIds(remote_before[c]) \subseteq EventIds(remote[c])

\* C12 witness: cleanup ran to its end on the personal calendar: the two
\* events with a course code and " - " were deleted, one request each, and
\* the two other events are still there.
C12_Witness ==
  /\ pc = "done"
  /\ CleanupSelected(argv)
  /\ deleted = <<1, 2>>
  /\ remote_before["primary"] = PersonalCalendar
  /\ remote["primary"] = <<PersonalCalendar[3], PersonalCalendar[4]>>

\* The passes of the loop over assignments that ran to their end: all that
\* were taken up but the one an exception ended.
Completed ==
  handled - (IF pc = "failed" /\ failure \in {"ValueError", "HttpError"} THEN 1 ELSE 0)

\* C18: in a sync run created + updated + skipped is the number of
\* assignments processed so far, every pass of the loop that ends adding one
\* to exactly one of the three; when main returns the three sum to the number
\* of assignment records extracted over all courses.
C18_TotalsCountAssignments ==
  /\ [](mode = "sync" =>
          /\ total_created + total_updated + total_skipped = Completed
          /\ pc = "done" => total_created + total_updated + total_skipped = extracted)
  /\ [][(mode = "sync" /\ handled' = handled + 1 /\ pc' # "failed") =>
          \/ /\ total_created' = total_created + 1
             /\ UNCHANGED <<total_updated, total_skipped>>
          \/ /\ total_updated' = total_updated + 1
             /\ UNCHANGED <<total_created, total_skipped>>
          \/ /\ total_skipped' = total_skipped + 1
             /\ UNCHANGED <<total_created, total_updated>>]_vars

\* C18 witness: a sync run that returned after two assignments, one created
\* and one skipped.
C18_Witness ==
  /\ mode = "sync"
  /\ pc = "done"
  /\ extracted = 2
  /\ total_created = 1
  /\ total_updated = 0
  /\ total_skipped = 1

\* ------------------------------------------------------------------------
\* Two runs over the same (course, assignment) pairs in two orders, the remote
\* service answering every request
\* ------------------------------------------------------------------------

MaxItems == 2

\* The (course, assignment) pairs of the runs: the records the extractor
\* returns for the rows of a run whose due date the normaliser does not raise on.
Items ==
  { <<crs, get_assignments(<<row>>, crs.id)[1]>> :
      crs \in { get_courses(<<link>>)[1] : link \in RunLinks },
      row \in { r \in RunRows : /\ get_assignments(<<r>>, "1") # <<>>
                                /\ \A t \in 1..Len(r.hidden) : r.hidden[t] # DueFeb30 } }

\* The sequences of at most MaxItems pairs, no pair twice.
ItemOrders ==
  { q \in SeqsUpTo(Items, MaxItems) : \A i, j \in 1..Len(q) : i # j => q[i] # q[j] }

\* The same elements, each once, in any order.
SameItems(p, q) ==
  /\ Len(p) = Len(q)
  /\ { p[k] : k \in 1..Len(p) } = { q[k] : k \in 1..Len(q) }

\* The id the service gives an inserted event: one it has not used on the calendar.
FreshId(events) ==
  CHOOSE n \in 1..(Len(events) + 2) :
    /\ \A k \in 1..Len(events) : events[k].id # n
    /\ \A m \in 1..(n - 1) : \E k \in 1..Len(events) : events[k].id = m

\* generate_ical.main: the dicts collected from the pairs from position i on.
RECURSIVE CollectAll(_, _, _)
CollectAll(items, i, collected) ==
  IF i > Len(items) THEN collected
  ELSE CollectAll(items, i + 1,
                  IF ~Truthy(items[i][2].due_date) THEN collected
                  ELSE Append(collected, IcalDict(items[i][1], items[i][2])))

InitOrder ==
  /\ \E p \in ItemOrders, q \in ItemOrders :
       /\ SameItems(p, q)
       /\ order_a = [items |-> p, next |-> 1]
       /\ order_b = [items |-> q, next |-> 1]
  /\ events_a \in {<<>>, <<OldEvent>>}
  /\ events_b = events_a
  /\ ics_a = None
  /\ ics_b = None
  /\ ParseIdle
  /\ ExtractIdle
  /\ ProjectIdle
  /\ RunIdle

notOrder == <<parseVars, extractVars, calls, runVars>>

\* First run: sync_gradescope.main processes its next pair.
SyncNextA ==
  /\ order_a.next <= Len(order_a.items)
  /\ \E item \in {order_a.items[order_a.next]} :
       events_a' = SyncAssignment(events_a, FreshId(events_a), item[1], item[2],
                                  current_year, TRUE, TRUE).events
  /\ order_a' = [order_a EXCEPT !.next = @ + 1]
  /\ UNCHANGED <<order_b, events_b, ics_a, ics_b, notOrder>>

\* Second run: sync_gradescope.main processes its next pair.
SyncNextB ==
  /\ order_b.next <= Len(order_b.items)
  /\ \E item \in {order_b.items[order_b.next]} :
       events_b' = SyncAssignment(events_b, FreshId(events_b), item[1], item[2],
                                  current_year, TRUE, TRUE).events
  /\ order_b' = [order_b EXCEPT !.next = @ + 1]
  /\ UNCHANGED <<order_a, events_a, ics_a, ics_b, notOrder>>

\* First run: generate_ical.main collects the pairs and writes the file.
GenerateIcsA ==
  /\ ics_a = None
  /\ ics_a' = Some(save_ics_file(CollectAll(order_a.items, 1, <<>>), current_year))
  /\ UNCHANGED <<order_a, order_b, events_a, events_b, ics_b, notOrder>>

\* Second run: generate_ical.main collects the pairs and writes the file.
GenerateIcsB ==
  /\ ics_b = None
  /\ ics_b' = Some(save_ics_file(CollectAll(order_b.items, 1, <<>>), current_year))
  /\ UNCHANGED <<order_a, order_b, events_a, events_b, ics_a, notOrder>>

NextOrder == SyncNextA \/ SyncNextB \/ GenerateIcsA \/ GenerateIcsB

SpecOrder == InitOrder /\ [][NextOrder]_vars

\* What a remote calendar shows of its events (the ids are the service's).
ShownEvents(events) ==
  { [summary |-> events[k].summary, start |-> events[k].start,
     description |-> events[k].description] : k \in 1..Len(events) }

\* The VEVENTs of a calendar file.
Vevents(file) == { file[k] : k \in 1..Len(file) }

BothRunsDone ==
  /\ order_a.next > Len(order_a.items)
  /\ order_b.next > Len(order_b.items)
  /\ ics_a # None
  /\ ics_b # None

\* C9: the set of events a run produces is the same for every order in which
\* the same courses and assignments are processed: the VEVENTs of the calendar
\* file and the events of the remote calendar after a sync depend only on the
\* set of (course, assignment) inputs.
C9_OrderDoesNotMatter ==
  BothRunsDone =>
    /\ Vevents(ics_a[1]) = Vevents(ics_b[1])
    /\ ShownEvents(events_a) = ShownEvents(events_b)

====
